---- MODULE Spec2Model ----
(***************************************************************************)
(* SkyShield / AegisCloud browser console: the client-side monitoring      *)
(* controller (run-detection button, alert feed reconciliation, result     *)
(* filter) together with the requests it has in flight and the backend     *)
(* state those requests read and write.                                    *)
(*                                                                         *)
(* Three pages are modelled, selected by the variable page:                *)
(*   "app"        src/frontend/app.js (= src/unnamed/part_000 plus charts) *)
(*   "console"    src/frontend/sidebar-toggle.js, lines 182-664            *)
(*   "detection"  src/unnamed/part_001: the console's detection handler    *)
(*                and filter alone, without polling and post-run refresh   *)
(* JavaScript is single threaded: every action below is one task, i.e. the *)
(* code that runs from an event (click, timer, response) up to the next    *)
(* await.                                                                  *)
(***************************************************************************)
EXTENDS Integers, Sequences, FiniteSets, TLC

\* ------------------------------------------------------------------ bounds
MaxInFlight == 2     \* requests outstanding at once (refreshStats aside)
MaxAlerts == 52      \* alerts the backend stores
MaxResults == 2      \* records of a result set given to the filter
MaxFilterLen == 2    \* characters typed into the IP filter
ScenarioEvents == 100 \* events a detection run returns at most

\* ------------------------------------------------------- program constants
FeedLimit == 51              \* while ($alertsList.children.length > 51)
LogCountThreshold == 10000   \* if (logCount.count > 10000)
MaxBuckets == 10             \* Math.min(10, ...)
AlertsPerBucket == 5         \* Math.ceil(alerts.length / 5)

Pages == {"app", "console", "detection"}

\* Pages whose click handler has the detectionInProgress branch and the
\* result filter.
CancellablePages == {"console", "detection"}

\* Child nodes of $alertsList: the whitespace text node and the "noAlerts"
\* placeholder <li> written by the clear handler, and one <li> per admitted
\* alert, represented by the alert's log_id (a positive number).
TextNode == -1
NoAlertsLi == 0

VARIABLES
    page,                  \* which script is loaded
    \* --- reconciler (refreshAlerts, clear handler)
    knownAlertIds,         \* let knownAlertIds = new Set()
    alertsList,            \* childNodes of $alertsList, head first
    alertCount,            \* $alertCount.textContent (-1: not yet written)
    online,                \* setOnline(ok): "unknown" | "online" | "offline"
    \* --- job controller ($btnDetect click handler)
    detectionInProgress,   \* let detectionInProgress = false
    btnLabel,              \* $btnDetect.innerHTML
    btnDisabled,           \* $btnDetect.disabled
    runs,                  \* active invocations of the async click handler
    dialog,                \* alert() of the latest run ("none": not shown yet)
    \* --- result filter (applyFilters)
    allDetectionResults,   \* let allDetectionResults = []
    filterThreat,          \* $filterThreat.value
    filterIP,              \* $filterIP.value
    resultsCount,          \* $resultsCount.textContent (-1: not yet written)
    detectBody,            \* $detectBody.innerHTML
    \* --- requests in flight
    alertReqs,             \* GET /alerts, in issue order
    statsPending,          \* some refreshStats() call no run awaits is unsettled
    cancelReqs,            \* POST /detect/cancel
    clearReqs,             \* POST /alerts/clear
    clearLogsReqs,         \* POST /logs/clear
    \* --- charts (updateCharts)
    threatChart,           \* threatChart.data.datasets[0].data
    timelineChart,         \* timelineChart.data: labels and the two datasets
    \* --- backend
    store,                 \* number of stored alerts: log_ids 1..store
    backendAlerts,         \* the alerts the backend creates, in storage order:
                           \* the first `store` of them are stored
    \* --- history
    lastReconciled,        \* list last reconciled since the last clear
    clearedSeen,           \* a clear emptied a non-empty knownAlertIds and
                           \* no list has been reconciled since
    \* --- the order of requests and answers, where a specification observes it
    preClear,              \* the first preClear requests of alertReqs were
                           \* outstanding when the last clear emptied the set
    overtaken,             \* the first overtaken requests of alertReqs were
                           \* issued before a poll that was already answered
    newest,                \* the number of alerts in the answer, among those
                           \* processed, to the poll issued last (-1: none
                           \* was processed, or that poll failed)
    cancelsSent,           \* POST /detect/cancel requests sent since the last
                           \* start click (2: two or more)
    \* --- what the last task did
    admitted,              \* alerts it admitted to the feed, in order
    call,                  \* its reconciliation: "none" | "first" (the first
                           \* after such a clear) | "again" (of the list
                           \* reconciled last) | "other"
    issued                 \* paths of the requests it sent

vars == <<page, knownAlertIds, alertsList, alertCount, online,
          detectionInProgress, btnLabel, btnDisabled, runs, dialog,
          allDetectionResults, filterThreat, filterIP, resultsCount, detectBody,
          alertReqs, statsPending, cancelReqs, clearReqs, clearLogsReqs, store,
          threatChart, timelineChart, backendAlerts,
          lastReconciled, clearedSeen, preClear, overtaken, newest, cancelsSent,
          admitted, call, issued>>

reconcilerVars == <<knownAlertIds, alertsList, alertCount>>
jobVars == <<detectionInProgress, btnLabel, btnDisabled, runs, dialog>>
filterVars == <<allDetectionResults, filterThreat, filterIP, resultsCount, detectBody>>
netVars == <<alertReqs, statsPending, cancelReqs, clearReqs, clearLogsReqs>>
obsVars == <<preClear, overtaken, newest, cancelsSent>>
histVars == <<lastReconciled, clearedSeen, obsVars>>
chartVars == <<threatChart, timelineChart>>

\* ------------------------------------------------------------- reconciler
\* GET /alerts answers with the stored alerts in storage order.
AlertsOf(n) == [i \in 1..n |-> i]

\* $alertsList.children: the element children (text nodes are not counted).
Children(list) == SelectSeq(list, LAMBDA x : x # TextNode)

\* The <li> entries of the feed that render an alert.
AlertEntries(list) == SelectSeq(list, LAMBDA x : x > 0)

\* $alertsList.innerHTML = `\n <li ... id="noAlerts">...</li>`
ClearedList == <<TextNode, NoAlertsLi>>

\* while ($alertsList.children.length > 51)
\*   $alertsList.removeChild($alertsList.lastChild);
RECURSIVE Evict(_)
Evict(list) ==
    IF Len(Children(list)) > FeedLimit
    THEN Evict(SubSeq(list, 1, Len(list) - 1))
    ELSE list

MutAppendsEntry(list, a) == Evict(list \o <<a>>)

\* $alertsList.prepend(li) followed by the eviction loop.
Prepend(list, a) == Evict(<<a>> \o list)

\* One iteration of alerts.forEach on the state s = [known, list, admitted, i]
\* of the loop: i is the index of the element the iteration visits.
MutSkipSeenCheck(s, a) ==
    [known |-> s.known \cup {a},
     list |-> Prepend(s.list, a),
     admitted |-> Append(s.admitted, a),
     i |-> s.i + 1]

MutNoAddToSeen(s, a) ==
    IF a \in s.known
    THEN [s EXCEPT !.i = s.i + 1]
    ELSE [known |-> s.known,
          list |-> Prepend(s.list, a),
          admitted |-> Append(s.admitted, a),
          i |-> s.i + 1]

\* The log_ids rendered in the feed.
FeedIds(list) == {list[k] : k \in {j \in 1..Len(list) : list[j] > 0}}

MutReadmitsEvicted(s, a) ==
    IF a \in s.known /\ a \in FeedIds(s.list)
    THEN [s EXCEPT !.i = s.i + 1]
    ELSE [known |-> s.known \cup {a},
          list |-> Prepend(s.list, a),
          admitted |-> Append(s.admitted, a),
          i |-> s.i + 1]

MutSeenWithoutEntry(s, a) ==
    [s EXCEPT !.known = s.known \cup {a}, !.i = s.i + 1]

ForEachAlert(s, a) ==
    IF a \in s.known
    THEN [s EXCEPT !.i = s.i + 1]
    ELSE [known |-> s.known \cup {a},
          list |-> Prepend(s.list, a),
          admitted |-> Append(s.admitted, a),
          i |-> s.i + 1]

\* alerts.forEach(a => ...): the iterations s.i .. hi in input order, as
\* those of the lower half of the range followed by those of the upper.
RECURSIVE ForEach(_, _, _)
ForEach(s, alerts, hi) ==
    IF s.i > hi THEN s
    ELSE IF s.i = hi THEN ForEachAlert(s, alerts[hi])
    ELSE ForEach(ForEach(s, alerts, (s.i + hi) \div 2), alerts, hi)

\* The body of refreshAlerts after the response arrived: nothing is
\* reconciled when the response is empty (early return).
Reconcile(known, list, alerts) ==
    LET s0 == [known |-> known, list |-> list, admitted |-> <<>>, i |-> 1]
    IN  IF Len(alerts) = 0 THEN s0 ELSE ForEach(s0, alerts, Len(alerts))

\* -------------------------------------------------------- series aggregator
\* An alert of a GET /alerts response, as far as updateCharts reads it: its
\* timestamp is the minute of the day it was raised.
Alert(id, label, minute) ==
    [log_id |-> id, threat_label |-> label, timestamp |-> minute]

\* alerts.filter(a => a.threat_label === label).length
Tally(alerts, label) ==
    Len(SelectSeq(alerts, LAMBDA a : a.threat_label = label))

\* [attackCount, suspiciousCount, normalCount]
MutTallyOfFeed(alerts) ==
    LET shown == SubSeq(alerts, 1, IF Len(alerts) < 50 THEN Len(alerts) ELSE 50)
    IN  <<Tally(shown, "Attack"), Tally(shown, "Suspicious"), Tally(shown, "Normal")>>
Distribution(alerts) ==
    <<Tally(alerts, "Attack"), Tally(alerts, "Suspicious"), Tally(alerts, "Normal")>>

\* [...alerts].sort((a, b) => new Date(a.timestamp) - new Date(b.timestamp)):
\* a stable sort by ascending timestamp.
MutUnsorted(alerts) == alerts
SortedAlerts(alerts) ==
    SortSeq(alerts, LAMBDA a, b : a.timestamp < b.timestamp)

\* Math.ceil(a / b) for positive b.
Ceil(a, b) == (a + b - 1) \div b
\* Math.min
Min(a, b) == IF a < b THEN a ELSE b

\* const bucketCount = Math.min(10, Math.ceil(alerts.length / 5));
MutBucketCountUncapped(n) == Ceil(n, AlertsPerBucket)
BucketCount(n) == Min(MaxBuckets, Ceil(n, AlertsPerBucket))

\* const bucketSize = Math.ceil(sortedAlerts.length / bucketCount);
MutBucketSizeFloor(n) == n \div BucketCount(n)
BucketSize(n) == Ceil(n, BucketCount(n))

\* Array.prototype.slice(from, to) for 0 <= from <= to.
Slice(seq, from, to) == SubSeq(seq, from + 1, Min(to, Len(seq)))

\* The bucketAlerts of the iterations of the for loop that do not
\* `continue`: the non-empty slices, in order.
Buckets(alerts) ==
    LET sorted == SortedAlerts(alerts)
        n == Len(alerts)
        size == BucketSize(n)
        slices == [i \in 1..BucketCount(n) |->
                      Slice(sorted, (i - 1) * size, i * size)]
    IN  SelectSeq(slices, LAMBDA bucketAlerts : Len(bucketAlerts) # 0)

\* firstTime.toLocaleTimeString('en-US', { hour: '2-digit', minute: '2-digit' })
TimeLabel(minute) ==
    LET hour == (minute \div 60) % 24
    IN  [hour |-> IF hour % 12 = 0 THEN 12 ELSE hour % 12,
         minute |-> minute % 60,
         pm |-> hour >= 12]

\* A loop that would label a bucket with its last member.
MutLabelsFromLast(alerts) ==
    LET buckets == Buckets(alerts)
    IN  [labels |-> [k \in 1..Len(buckets) |->
                        TimeLabel(buckets[k][Len(buckets[k])].timestamp)],
         attacks |-> [k \in 1..Len(buckets) |-> Tally(buckets[k], "Attack")],
         suspicious |-> [k \in 1..Len(buckets) |-> Tally(buckets[k], "Suspicious")]]

\* What the loop pushes to timeLabels, attackData and suspData.
Timeline(alerts) ==
    LET buckets == Buckets(alerts)
    IN  [labels |-> [k \in 1..Len(buckets) |-> TimeLabel(buckets[k][1].timestamp)],
         attacks |-> [k \in 1..Len(buckets) |-> Tally(buckets[k], "Attack")],
         suspicious |-> [k \in 1..Len(buckets) |-> Tally(buckets[k], "Suspicious")]]

\* timelineChart.data after initCharts().
EmptyTimeline == [labels |-> <<>>, attacks |-> <<>>, suspicious |-> <<>>]

\* updateCharts(alerts) on the charts [threat, timeline]: the distribution
\* is always written, the timeline only when alerts.length > 0.
UpdateCharts(charts, alerts) ==
    [threat |-> Distribution(alerts),
     timeline |-> IF Len(alerts) > 0 THEN Timeline(alerts) ELSE charts.timeline]

\* ---------------------------------------------------------- result filter
\* Strings that the filter inspects are sequences of characters; the
\* alphabet is "1", "a", "A" and the blank " ".
Blank == " "
NullIp == <<"null">>     \* a record without source_ip

\* String.prototype.toLowerCase on the alphabet above.
LowerChar(c) == IF c = "A" THEN "a" ELSE c
ToLowerCase(str) == [i \in 1..Len(str) |-> LowerChar(str[i])]

\* String.prototype.trim: drops leading and trailing white space.
RECURSIVE TrimStart(_)
TrimStart(str) ==
    IF str # <<>> /\ Head(str) = Blank THEN TrimStart(Tail(str)) ELSE str
RECURSIVE TrimEnd(_)
TrimEnd(str) ==
    IF str # <<>> /\ str[Len(str)] = Blank
    THEN TrimEnd(SubSeq(str, 1, Len(str) - 1))
    ELSE str
Trim(str) == TrimEnd(TrimStart(str))

\* String.prototype.includes
Includes(str, sub) ==
    \E i \in 0..(Len(str) - Len(sub)) : SubSeq(str, i + 1, i + Len(sub)) = sub

\* (r.source_ip || "")
IpOrEmpty(r) == IF r.source_ip = NullIp THEN <<>> ELSE r.source_ip

\* $filterIP.value.trim().toLowerCase()
IpFilterOf(raw) == ToLowerCase(Trim(raw))

\* The two filter() passes of applyFilters.
MutFilteredIgnoresLabel(results, threatFilter, rawIp) ==
    SelectSeq(results, LAMBDA r : Includes(ToLowerCase(IpOrEmpty(r)), IpFilterOf(rawIp)))

MutAllIsALabel(results, threatFilter, rawIp) ==
    SelectSeq(results, LAMBDA r : r.threat_label = threatFilter)

Filtered(results, threatFilter, rawIp) ==
    LET byThreat == IF threatFilter # "all"
                    THEN SelectSeq(results, LAMBDA r : r.threat_label = threatFilter)
                    ELSE results
        ipFilter == IpFilterOf(rawIp)
    IN  IF ipFilter # <<>>
        THEN SelectSeq(byThreat, LAMBDA r : Includes(ToLowerCase(IpOrEmpty(r)), ipFilter))
        ELSE byThreat

\* What applyFilters writes: $resultsCount.textContent and $detectBody.
NoLogsMsg == "No logs to analyze"
NoMatchMsg == "No results match your filters"
MutOneEmptyMessage(results, threatFilter, rawIp) ==
    LET filtered == Filtered(results, threatFilter, rawIp)
    IN  [count |-> Len(filtered),
         body |-> [msg |-> IF Len(filtered) # 0 THEN "" ELSE NoMatchMsg,
                   rows |-> filtered]]

ApplyFilters(results, threatFilter, rawIp) ==
    LET filtered == Filtered(results, threatFilter, rawIp)
    IN  [count |-> Len(filtered),
         body |-> [msg |-> IF Len(filtered) # 0 THEN ""
                           ELSE IF Len(results) = 0 THEN NoLogsMsg ELSE NoMatchMsg,
                   rows |-> filtered]]

\* ---------------------------------------------------------- job controller
NullLimit == -1     \* let limit = null
NaNLimit == -2      \* parseInt of a text that does not start with a number

\* What the user may type into prompt(): "cancel" is the dismissed dialog
\* (prompt returns null).
PromptInputs == {"cancel", "", "500", "abc"}

\* if (userLimit) limit = parseInt(userLimit);
ParseInt(text) == IF text = "500" THEN 500 ELSE NaNLimit
MutLimitWithoutCount(count, userLimit) ==
    IF userLimit \notin {"cancel", ""} THEN ParseInt(userLimit) ELSE NullLimit
LimitOf(count, userLimit) ==
    IF count > LogCountThreshold /\ userLimit \notin {"cancel", ""}
    THEN ParseInt(userLimit)
    ELSE NullLimit

\* JSON.stringify({ limit: limit }): NaN is serialised as null.
JsonLimit(limit) == IF limit = NaNLimit THEN NullLimit ELSE limit

LogCounts == {LogCountThreshold, LogCountThreshold + 1}

\* One invocation of the async click handler, suspended at an await:
\*   pc = "count"    await api("/logs/count")
\*   pc = "detect"   await api("/detect", ...); limit is the limit in the
\*                   request body, srv the backend's side of the request,
\*                   cancelled the flag its response carries
\*   pc = "refresh"  await Promise.all([refreshAlerts(), refreshStats()])
\* sent counts the POST /detect requests the invocation has issued.
NewRun == [pc |-> "count", limit |-> NullLimit, srv |-> "none",
           cancelled |-> FALSE, waitA |-> FALSE, waitS |-> FALSE, sent |-> 0]

RemoveAt(seq, i) == SubSeq(seq, 1, i - 1) \o SubSeq(seq, i + 1, Len(seq))

\* Requests outstanding, the requests of refreshStats() aside: a run holds
\* one until its post-run refresh, whose GET /alerts is in alertReqs.
Load ==
    Len(alertReqs) + cancelReqs + clearReqs + clearLogsReqs
    + Len(SelectSeq(runs, LAMBDA r : r.pc # "refresh"))

\* The requests of one refreshStats() call: Promise.all of two api() calls.
StatsPaths == {"/stats", "/logs/count"}

\* refreshAlerts() and refreshStats() called in the same task.
RefreshPaths == {"/alerts"} \cup StatsPaths

\* The browser dispatches no click event on a disabled button.
MutClickOnDisabled == TRUE
ClickDispatched == ~btnDisabled

\* if (detectionInProgress) { ...cancel...; return; }
MutNoProgressCheck == FALSE
TakesCancelBranch == page \in CancellablePages /\ detectionInProgress

\* JobState of the specification, read off the page: the console keeps the
\* flag detectionInProgress and shows "Cancelling..." once a cancellation
\* was acknowledged; the app page disables the button for the whole run.
JobState ==
    IF page \in CancellablePages
    THEN IF ~detectionInProgress THEN "Idle"
         ELSE IF btnLabel = "Cancelling..." THEN "CancelRequested"
         ELSE "Running"
    ELSE IF btnDisabled THEN "Running" ELSE "Idle"

\* POST /detect requests that are outstanding.
DetectOutstanding == Len(SelectSeq(runs, LAMBDA r : r.pc = "detect"))

\* A task that reconciles nothing.
NoReconcile == admitted' = <<>> /\ call' = "none"

\* finally { detectionInProgress = false; $btnDetect.disabled = false; ... }
MutFinallyKeepsFlag(i) ==
    /\ runs' = RemoveAt(runs, i)
    /\ UNCHANGED <<detectionInProgress, btnDisabled>>
    /\ btnLabel' = "Run Detection"

FinallyBlock(i) ==
    /\ runs' = RemoveAt(runs, i)
    /\ detectionInProgress' = FALSE
    /\ btnDisabled' = FALSE
    /\ btnLabel' = "Run Detection"

\* catch (err) { alert("Detection failed: " + err.message); } finally {...}
MutCatchRetries(i) ==
    /\ dialog' = "Detection failed"
    /\ runs' = [runs EXCEPT ![i] =
                  [NewRun EXCEPT !.pc = "detect", !.srv = "running",
                                 !.sent = runs[i].sent + 1]]
    /\ issued' = {"/detect"}
    /\ UNCHANGED <<detectionInProgress, btnDisabled, btnLabel>>

MutCatchRefreshes(i) ==
    /\ dialog' = "Detection failed"
    /\ issued' = RefreshPaths
    /\ FinallyBlock(i)

CatchBlock(i) ==
    /\ dialog' = "Detection failed"
    /\ issued' = {}
    /\ FinallyBlock(i)

\* Click on $btnDetect while no run is in progress: the handler runs up to
\* its first await, api("/logs/count").
DetectStartClicked ==
    /\ ClickDispatched
    /\ ~TakesCancelBranch
    /\ Load + 1 <= MaxInFlight
    /\ runs' = Append(runs, NewRun)
    /\ IF page \in CancellablePages
       THEN /\ detectionInProgress' = TRUE
            /\ btnLabel' = "Stop Analysis"
            /\ btnDisabled' = btnDisabled
       ELSE /\ btnDisabled' = TRUE
            /\ btnLabel' = "Analyzing..."
            /\ detectionInProgress' = detectionInProgress
    /\ dialog' = "none"
    /\ issued' = {"/logs/count"}
    /\ NoReconcile
    /\ UNCHANGED <<page, backendAlerts, reconcilerVars, chartVars, online, filterVars,
                   netVars, store, lastReconciled, clearedSeen>>

BtnDetectStart == DetectStartClicked /\ UNCHANGED obsVars

\* The same click, recorded as the start of a run.
BtnDetectStartObserved ==
    /\ DetectStartClicked
    /\ cancelsSent' = 0
    /\ UNCHANGED <<preClear, overtaken, newest>>

\* Click on $btnDetect while detectionInProgress: the handler runs up to
\* await api("/detect/cancel", { method: "POST" }).
DetectCancelClicked ==
    /\ ClickDispatched
    /\ TakesCancelBranch
    /\ Load + 1 <= MaxInFlight
    /\ cancelReqs' = cancelReqs + 1
    /\ issued' = {"/detect/cancel"}
    /\ NoReconcile
    /\ UNCHANGED <<page, backendAlerts, reconcilerVars, chartVars, online, jobVars, filterVars,
                   alertReqs, statsPending, clearReqs, clearLogsReqs, store,
                   lastReconciled, clearedSeen>>

BtnDetectCancel == DetectCancelClicked /\ UNCHANGED obsVars

\* The same click, with the cancellation requests of the run counted.
BtnDetectCancelObserved ==
    /\ DetectCancelClicked
    /\ cancelsSent' = IF cancelsSent < 2 THEN cancelsSent + 1 ELSE cancelsSent
    /\ UNCHANGED <<preClear, overtaken, newest>>

\* The cancel branch after its await: "Cancelling..." is shown when the
\* request succeeded; a failure is only logged (console.error).
MutCancelLabelNever(ok) == btnLabel
CancelLabel(ok) == IF ok THEN "Cancelling..." ELSE btnLabel

\* The answer to POST /detect/cancel. The backend marks the detection it is
\* running as cancelled.
CancelResponse(ok, processed) ==
    /\ cancelReqs > 0
    /\ ok => processed
    /\ cancelReqs' = cancelReqs - 1
    /\ runs' = IF processed
               THEN [i \in 1..Len(runs) |->
                        IF runs[i].pc = "detect" /\ runs[i].srv = "running"
                        THEN [runs[i] EXCEPT !.cancelled = TRUE]
                        ELSE runs[i]]
               ELSE runs
    /\ btnLabel' = CancelLabel(ok)
    /\ issued' = {}
    /\ NoReconcile
    /\ UNCHANGED <<page, backendAlerts, reconcilerVars, chartVars, online, detectionInProgress, btnDisabled,
                   dialog, filterVars, alertReqs, statsPending, clearReqs, clearLogsReqs, store,
                   histVars>>

\* The answer to GET /logs/count of run i: on failure the catch and finally
\* blocks run; on success the limit is asked for and POST /detect is sent.
LogsCountResponse(i, ok, count, userLimit) ==
    /\ i \in 1..Len(runs)
    /\ runs[i].pc = "count"
    /\ IF ok
       THEN /\ runs' = [runs EXCEPT ![i] =
                          [NewRun EXCEPT !.pc = "detect", !.srv = "running",
                                         !.limit = JsonLimit(LimitOf(count, userLimit)),
                                         !.sent = runs[i].sent + 1]]
            /\ issued' = {"/detect"}
            /\ UNCHANGED <<detectionInProgress, btnLabel, btnDisabled, dialog>>
       ELSE CatchBlock(i)
    /\ NoReconcile
    /\ UNCHANGED <<page, backendAlerts, reconcilerVars, chartVars, online, filterVars, netVars, store, histVars>>

\* ------------------------------------------------------------------ backend
\* Sizes of the backend's alert collection that are told apart.
StoreSizes == {0, 1, MaxAlerts - 1, MaxAlerts}

\* Result sets a detection response may carry in analyzed_events.
Rec(label, ip) == [threat_label |-> label, source_ip |-> ip]
ResultSets ==
    { <<>>,
      <<Rec("Attack", <<"1", "A">>), Rec("Normal", <<"1", "a">>)>> }

\* The backend finishes the detection of run i: it has stored the alerts the
\* run created (the collection now holds n) and has its response ready.
BackendDetectFinish(i, n) ==
    /\ i \in 1..Len(runs)
    /\ runs[i].pc = "detect"
    /\ runs[i].srv = "running"
    /\ n >= store
    /\ store' = n
    /\ runs' = [runs EXCEPT ![i].srv = "done"]
    /\ issued' = {}
    /\ NoReconcile
    /\ UNCHANGED <<page, backendAlerts, reconcilerVars, chartVars, online, detectionInProgress, btnLabel,
                   btnDisabled, dialog, filterVars, netVars, histVars>>

\* A refreshAlerts() call up to its await: GET /alerts is sent.
AlertsRequest(awaitedByRun) == [snap |-> -1, run |-> awaitedByRun]

\* response.analyzed_events || []: a response without the field gives the
\* empty result set.
NoEvents == <<"undefined">>
MutEventsDropped(events) == <<>>
EventsOrEmpty(events) == IF events = NoEvents THEN <<>> ELSE events

\* if (response.cancelled) alert("Stopped! Analyzed ... of ... logs.")
\* else alert("Analyzed ... logs!")
MutStoppedIsFailure(cancelled) ==
    IF cancelled THEN "Detection failed" ELSE "Analyzed"
Summary(cancelled) == IF cancelled THEN "Stopped" ELSE "Analyzed"

\* The answer to POST /detect of run i. On failure: catch, finally. On
\* success the console stores and filters the events, every page reports the
\* outcome; then refreshAlerts() and refreshStats() are called and awaited
\* (the detection page has neither and goes on to its finally block).
DetectResponse(i, ok, events) ==
    /\ i \in 1..Len(runs)
    /\ runs[i].pc = "detect"
    /\ IF ok
       THEN /\ runs[i].srv = "done"
            /\ IF page \in CancellablePages
               THEN /\ allDetectionResults' = EventsOrEmpty(events)
                    /\ resultsCount' =
                          ApplyFilters(EventsOrEmpty(events), filterThreat, filterIP).count
                    /\ detectBody' =
                          ApplyFilters(EventsOrEmpty(events), filterThreat, filterIP).body
               ELSE UNCHANGED <<allDetectionResults, resultsCount, detectBody>>
            /\ dialog' = Summary(runs[i].cancelled)
            /\ IF page = "detection"
               THEN /\ FinallyBlock(i)
                    /\ issued' = {}
                    /\ alertReqs' = alertReqs
               ELSE /\ runs' = [runs EXCEPT ![i] =
                                  [NewRun EXCEPT !.pc = "refresh", !.waitA = TRUE,
                                                 !.waitS = TRUE, !.sent = runs[i].sent]]
                    /\ alertReqs' = Append(alertReqs, AlertsRequest(TRUE))
                    /\ issued' = RefreshPaths
                    /\ UNCHANGED <<detectionInProgress, btnLabel, btnDisabled>>
       ELSE /\ CatchBlock(i)
            /\ UNCHANGED <<allDetectionResults, resultsCount, detectBody, alertReqs>>
    /\ NoReconcile
    /\ UNCHANGED <<page, backendAlerts, reconcilerVars, chartVars, online, filterThreat, filterIP,
                   statsPending, cancelReqs, clearReqs, clearLogsReqs, store, histVars>>

Awaits(r, part) ==
    r.pc = "refresh" /\ (IF part = "alerts" THEN r.waitA ELSE r.waitS)

\* A part of Promise.all([refreshAlerts(), refreshStats()]) settled for the
\* run that awaits it; when both have, the run reaches its finally block.
RunRefreshSettled(part) ==
    IF \E i \in 1..Len(runs) : Awaits(runs[i], part)
    THEN LET i == CHOOSE j \in 1..Len(runs) : Awaits(runs[j], part)
             r == IF part = "alerts" THEN [runs[i] EXCEPT !.waitA = FALSE]
                                     ELSE [runs[i] EXCEPT !.waitS = FALSE]
         IN  IF r.waitA \/ r.waitS
             THEN /\ runs' = [runs EXCEPT ![i] = r]
                  /\ UNCHANGED <<detectionInProgress, btnLabel, btnDisabled>>
             ELSE FinallyBlock(i)
    ELSE UNCHANGED <<runs, detectionInProgress, btnLabel, btnDisabled>>

\* ------------------------------------------------------------------ polling
\* setInterval(() => { refreshStats(); refreshAlerts(); }, 5000)
TimerTick ==
    /\ page # "detection"
    /\ Load + 1 <= MaxInFlight
    /\ statsPending' = TRUE
    /\ alertReqs' = Append(alertReqs, AlertsRequest(FALSE))
    /\ issued' = RefreshPaths
    /\ NoReconcile
    /\ UNCHANGED <<page, backendAlerts, reconcilerVars, chartVars, online, jobVars, filterVars,
                   cancelReqs, clearReqs, clearLogsReqs, store, histVars>>

\* The backend reads its alert collection for the q-th outstanding GET /alerts.
BackendAnswerAlerts(q) ==
    /\ q \in 1..Len(alertReqs)
    /\ alertReqs[q].snap = -1
    /\ alertReqs' = [alertReqs EXCEPT ![q].snap = store]
    /\ issued' = {}
    /\ NoReconcile
    /\ UNCHANGED <<page, backendAlerts, reconcilerVars, chartVars, online, jobVars, filterVars,
                   statsPending, cancelReqs, clearReqs, clearLogsReqs, store, histVars>>

\* The alerts of a GET /alerts response as updateCharts reads them.
AlertRecords(n) == SubSeq(backendAlerts, 1, n)

\* updateCharts(alerts) as called by refreshAlerts: only the dashboard page
\* has charts.
ChartsAfter(alerts) ==
    IF page = "app"
    THEN \E c \in {UpdateCharts([threat |-> threatChart, timeline |-> timelineChart],
                                alerts)} :
            /\ threatChart' = c.threat
            /\ timelineChart' = c.timeline
    ELSE UNCHANGED chartVars

\* How a reconciliation of a non-empty list relates to what went before.
CallKind(alerts) ==
    IF clearedSeen THEN "first"
    ELSE IF alerts = lastReconciled THEN "again"
    ELSE "other"

\* catch (e) { console.error("Alerts error:", e); setOnline(false); }
MutCatchZeroesCount ==
    /\ online' = "offline"
    /\ NoReconcile
    /\ alertCount' = 0
    /\ UNCHANGED <<knownAlertIds, alertsList, chartVars, lastReconciled, clearedSeen>>

RefreshAlertsCatch ==
    /\ online' = "offline"
    /\ NoReconcile
    /\ UNCHANGED <<reconcilerVars, chartVars, lastReconciled, clearedSeen>>

\* refreshAlerts() resumes with the answer to the q-th outstanding GET /alerts.
RefreshAlertsResumes(q, ok) ==
    /\ q \in 1..Len(alertReqs)
    /\ alertReqs' = RemoveAt(alertReqs, q)
    /\ IF ok
       THEN /\ alertReqs[q].snap >= 0
            /\ \E r \in {Reconcile(knownAlertIds, alertsList, AlertsOf(alertReqs[q].snap))} :
               LET alerts == AlertsOf(alertReqs[q].snap)
               IN  /\ alertCount' = Len(alerts)
                   /\ ChartsAfter(AlertRecords(alertReqs[q].snap))
                   /\ knownAlertIds' = r.known
                   /\ alertsList' = r.list
                   /\ admitted' = r.admitted
                   /\ IF Len(alerts) = 0
                      THEN /\ call' = "none"
                           /\ UNCHANGED <<online, lastReconciled, clearedSeen>>
                      ELSE /\ call' = CallKind(alerts)
                           /\ lastReconciled' = alerts
                           /\ clearedSeen' = FALSE
                           /\ online' = "online"
       ELSE RefreshAlertsCatch
    /\ issued' = {}
    /\ dialog' = dialog
    /\ IF alertReqs[q].run
       THEN RunRefreshSettled("alerts")
       ELSE UNCHANGED <<runs, detectionInProgress, btnLabel, btnDisabled>>
    /\ UNCHANGED <<page, backendAlerts, filterVars, statsPending, cancelReqs,
                   clearReqs, clearLogsReqs, store>>

AlertsResponse(q, ok) == RefreshAlertsResumes(q, ok) /\ UNCHANGED obsVars

\* The same step with the order of requests and answers recorded: the
\* requests issued before q are now overtaken, and q's answer is the answer
\* to the poll issued last unless q was itself overtaken.
AlertsResponseObserved(q, ok) ==
    /\ RefreshAlertsResumes(q, ok)
    /\ preClear' = IF q <= preClear THEN preClear - 1 ELSE preClear
    /\ overtaken' = IF q <= overtaken THEN overtaken - 1 ELSE q - 1
    /\ newest' = IF q <= overtaken THEN newest
                  ELSE IF ok THEN alertReqs[q].snap ELSE -1
    /\ cancelsSent' = cancelsSent

\* A refreshStats() call that no run awaits settles: both of its requests
\* (GET /stats, GET /logs/count) succeeded, or one of them failed. It was
\* the last such call outstanding, or it was not.
StatsResponse(ok, last) ==
    /\ statsPending
    /\ statsPending' = ~last
    /\ online' = IF ok THEN "online" ELSE "offline"
    /\ issued' = {}
    /\ NoReconcile
    /\ UNCHANGED <<page, backendAlerts, reconcilerVars, chartVars, jobVars, filterVars, alertReqs,
                   cancelReqs, clearReqs, clearLogsReqs, store, histVars>>

\* The refreshStats() call a run awaits settles.
RunStatsResponse(ok) ==
    /\ \E i \in 1..Len(runs) : Awaits(runs[i], "stats")
    /\ online' = IF ok THEN "online" ELSE "offline"
    /\ RunRefreshSettled("stats")
    /\ issued' = {}
    /\ NoReconcile
    /\ UNCHANGED <<page, backendAlerts, reconcilerVars, chartVars, dialog, filterVars, netVars, store, histVars>>

\* -------------------------------------------------------------- clear alerts
\* Click on $btnClearAlerts: the handler runs up to
\* await api("/alerts/clear", { method: "POST" }).
ClearAlertsClick ==
    /\ page # "detection"
    /\ Load + 1 <= MaxInFlight
    /\ clearReqs' = clearReqs + 1
    /\ issued' = {"/alerts/clear"}
    /\ NoReconcile
    /\ UNCHANGED <<page, backendAlerts, reconcilerVars, chartVars, online, jobVars, filterVars,
                   alertReqs, statsPending, cancelReqs, clearLogsReqs, store,
                   histVars>>

\* What the clear handler does once POST /alerts/clear succeeded:
\* knownAlertIds.clear(); $alertsList.innerHTML = ...; $alertCount = "0".
MutClearKeepsKnown == [known |-> knownAlertIds, list |-> ClearedList, count |-> 0]
ClearedState == [known |-> {}, list |-> ClearedList, count |-> 0]

\* The answer to POST /alerts/clear. The backend empties its collection
\* (processed); on success the handler empties the set and the feed and
\* calls refreshStats(); a failure is only logged.
ClearAlertsResumes(ok, processed) ==
    /\ clearReqs > 0
    /\ ok => processed
    /\ clearReqs' = clearReqs - 1
    /\ store' = IF processed THEN 0 ELSE store
    /\ IF ok
       THEN /\ knownAlertIds' = ClearedState.known
            /\ alertsList' = ClearedState.list
            /\ alertCount' = ClearedState.count
            /\ statsPending' = TRUE
            /\ issued' = StatsPaths
            /\ lastReconciled' = <<>>
            /\ clearedSeen' = (clearedSeen \/ knownAlertIds # {})
       ELSE /\ issued' = {}
            /\ UNCHANGED <<reconcilerVars, statsPending, lastReconciled, clearedSeen>>
    /\ NoReconcile
    /\ UNCHANGED <<page, backendAlerts, chartVars, online, jobVars, filterVars,
                   alertReqs, cancelReqs, clearLogsReqs>>

ClearAlertsResponse(ok, processed) ==
    ClearAlertsResumes(ok, processed) /\ UNCHANGED obsVars

\* The same step with the requests that are outstanding at a successful
\* clear recorded.
ClearAlertsResponseObserved(ok, processed) ==
    /\ ClearAlertsResumes(ok, processed)
    /\ preClear' = IF ok THEN Len(alertReqs) ELSE preClear
    /\ UNCHANGED <<overtaken, newest, cancelsSent>>

\* --------------------------------------------------------------- clear logs
\* Click on $btnClearLogs: confirm(); when confirmed the handler runs up to
\* await api("/logs/clear", ...). The detection page has no such button.
MutClearLogsStopsRun(confirmed) ==
    /\ page # "detection"
    /\ Load + 1 <= MaxInFlight
    /\ clearLogsReqs' = IF confirmed THEN clearLogsReqs + 1 ELSE clearLogsReqs
    /\ detectionInProgress' = FALSE
    /\ btnLabel' = "Run Detection"
    /\ issued' = IF confirmed THEN {"/logs/clear"} ELSE {}
    /\ NoReconcile
    /\ UNCHANGED <<page, backendAlerts, reconcilerVars, chartVars, online, btnDisabled,
                   runs, dialog, filterVars, alertReqs, statsPending, cancelReqs,
                   clearReqs, store, histVars>>
ClearLogsClick(confirmed) ==
    /\ page # "detection"
    /\ Load + 1 <= MaxInFlight
    /\ clearLogsReqs' = IF confirmed THEN clearLogsReqs + 1 ELSE clearLogsReqs
    /\ issued' = IF confirmed THEN {"/logs/clear"} ELSE {}
    /\ NoReconcile
    /\ UNCHANGED <<page, backendAlerts, reconcilerVars, chartVars, online, jobVars,
                   filterVars, alertReqs, statsPending, cancelReqs, clearReqs, store,
                   histVars>>

\* allDetectionResults = []; applyFilters();  (console only)
MutClearLogsKeepsView ==
    [results |-> <<>>, count |-> resultsCount, body |-> detectBody]
ClearedLogsView ==
    [results |-> <<>>,
     count |-> ApplyFilters(<<>>, filterThreat, filterIP).count,
     body |-> ApplyFilters(<<>>, filterThreat, filterIP).body]

\* The answer to POST /logs/clear (clear_alerts: true): the backend empties
\* its logs and its alert collection (processed). On success the console
\* empties the result set and applies the filters; both pages then call
\* refreshLogs(), refreshAlerts() and refreshStats(). A failure is logged
\* and shown with alert("Failed to clear logs: ...").
ClearLogsResponse(ok, processed) ==
    /\ clearLogsReqs > 0
    /\ ok => processed
    /\ clearLogsReqs' = clearLogsReqs - 1
    /\ store' = IF processed THEN 0 ELSE store
    /\ IF ok
       THEN /\ IF page = "console"
               THEN /\ allDetectionResults' = ClearedLogsView.results
                    /\ resultsCount' = ClearedLogsView.count
                    /\ detectBody' = ClearedLogsView.body
               ELSE UNCHANGED <<allDetectionResults, resultsCount, detectBody>>
            /\ alertReqs' = Append(alertReqs, AlertsRequest(FALSE))
            /\ statsPending' = TRUE
            /\ issued' = {"/logs"} \cup RefreshPaths
            /\ dialog' = dialog
       ELSE /\ dialog' = "Failed to clear logs"
            /\ issued' = {}
            /\ UNCHANGED <<allDetectionResults, resultsCount, detectBody,
                           alertReqs, statsPending>>
    /\ NoReconcile
    /\ UNCHANGED <<page, backendAlerts, reconcilerVars, chartVars, online,
                   detectionInProgress, btnLabel, btnDisabled, runs, filterThreat,
                   filterIP, cancelReqs, clearReqs, histVars>>

\* ------------------------------------------------------------ filter inputs
ThreatFilters == {"all", "Attack", "Suspicious", "Normal"}

\* A change listener that would reload the results instead of filtering the
\* stored ones.
MutFilterReloads(v) ==
    /\ page \in CancellablePages
    /\ v # filterThreat
    /\ filterThreat' = v
    /\ allDetectionResults' = <<>>
    /\ resultsCount' = 0
    /\ detectBody' = ApplyFilters(<<>>, v, filterIP).body
    /\ issued' = {"/detect"}
    /\ NoReconcile
    /\ UNCHANGED <<page, backendAlerts, reconcilerVars, chartVars, online, jobVars,
                   filterIP, netVars, store, histVars>>

\* $filterThreat.addEventListener("change", applyFilters)
FilterThreatChange(v) ==
    /\ page \in CancellablePages
    /\ v # filterThreat
    /\ filterThreat' = v
    /\ resultsCount' = ApplyFilters(allDetectionResults, v, filterIP).count
    /\ detectBody' = ApplyFilters(allDetectionResults, v, filterIP).body
    /\ issued' = {}
    /\ NoReconcile
    /\ UNCHANGED <<page, backendAlerts, reconcilerVars, chartVars, online, jobVars, allDetectionResults,
                   filterIP, netVars, store, histVars>>

\* $filterIP.addEventListener("input", applyFilters)
FilterIPInput(text) ==
    /\ page \in CancellablePages
    /\ text # filterIP
    /\ filterIP' = text
    /\ resultsCount' = ApplyFilters(allDetectionResults, filterThreat, text).count
    /\ detectBody' = ApplyFilters(allDetectionResults, filterThreat, text).body
    /\ issued' = {}
    /\ NoReconcile
    /\ UNCHANGED <<page, backendAlerts, reconcilerVars, chartVars, online, jobVars, allDetectionResults,
                   filterThreat, netVars, store, histVars>>

\* ----------------------------------------------------------- specifications
\* The page has loaded: init() has called refreshStats() and refreshAlerts()
\* (the detection page has no init()).
Loaded ==
    /\ knownAlertIds = {}
    /\ alertsList = ClearedList
    /\ alertCount = -1
    /\ online = "unknown"
    /\ detectionInProgress = FALSE
    /\ btnLabel = "Run Detection"
    /\ btnDisabled = FALSE
    /\ runs = <<>>
    /\ dialog = "none"
    /\ resultsCount = -1
    /\ detectBody = [msg |-> "", rows |-> <<>>]
    /\ alertReqs = IF page = "detection" THEN <<>> ELSE <<AlertsRequest(FALSE)>>
    /\ statsPending = (page # "detection")
    /\ cancelReqs = 0
    /\ clearReqs = 0
    /\ clearLogsReqs = 0
    /\ threatChart = <<0, 0, 0>>
    /\ timelineChart = EmptyTimeline
    /\ lastReconciled = <<>>
    /\ clearedSeen = FALSE
    /\ preClear = 0
    /\ overtaken = 0
    /\ newest = -1
    /\ cancelsSent = 0
    /\ admitted = <<>>
    /\ call = "none"
    /\ issued = IF page = "detection" THEN {} ELSE RefreshPaths

\* Alert collections the backend builds up. A long one is MaxAlerts alerts
\* whose labels and timestamps follow the strides a and c (c = 0: one
\* timestamp for all; otherwise not in timestamp order).
ThreatLabels == <<"Attack", "Suspicious", "Normal">>
LongAlerts(a, c) ==
    [i \in 1..MaxAlerts |->
        Alert(i, ThreatLabels[((i * a + i \div 4) % 3) + 1], 600 + ((i * c) % 7) * 13)]
DefaultAlerts == LongAlerts(1, 3)

Init ==
    /\ page \in Pages
    /\ backendAlerts = DefaultAlerts
    /\ store = 0
    /\ allDetectionResults = <<>>
    /\ filterThreat = "all"
    /\ filterIP = <<>>
    /\ Loaded

\* Alerts created by a detection that another page of the console started
\* (the detection page and the dashboard are separate documents).
BackendStoresAlerts(n) ==
    /\ n > store
    /\ store' = n
    /\ issued' = {}
    /\ NoReconcile
    /\ UNCHANGED <<page, backendAlerts, reconcilerVars, chartVars, online, jobVars, filterVars, netVars,
                   histVars>>

JobStoreSizes == {0, 1}

\* The job controller with the polling that runs beside it.
NextJob ==
    \/ BtnDetectStart
    \/ BtnDetectCancel
    \/ \E ok \in BOOLEAN, processed \in BOOLEAN : CancelResponse(ok, processed)
    \/ \E i \in 1..Len(runs), ok \in BOOLEAN, count \in LogCounts, t \in PromptInputs :
          LogsCountResponse(i, ok, count, t)
    \/ \E i \in 1..Len(runs), n \in JobStoreSizes : BackendDetectFinish(i, n)
    \/ \E i \in 1..Len(runs), ok \in BOOLEAN, events \in ResultSets :
          DetectResponse(i, ok, events)
    \/ TimerTick
    \/ \E q \in 1..Len(alertReqs) : BackendAnswerAlerts(q)
    \/ \E q \in 1..Len(alertReqs), ok \in BOOLEAN : AlertsResponse(q, ok)
    \/ \E ok \in BOOLEAN, last \in BOOLEAN : StatsResponse(ok, last)
    \/ \E ok \in BOOLEAN : RunStatsResponse(ok)

SpecJob == Init /\ [][NextJob]_vars

\* The requests of a run complete: each step below is the completion of the
\* request (or of the backend work) that the run is waiting for.
RunProgress ==
    \/ \E i \in 1..Len(runs), ok \in BOOLEAN, count \in LogCounts, t \in PromptInputs :
          LogsCountResponse(i, ok, count, t)
    \/ \E i \in 1..Len(runs), n \in JobStoreSizes : BackendDetectFinish(i, n)
    \/ \E i \in 1..Len(runs), ok \in BOOLEAN, events \in ResultSets :
          DetectResponse(i, ok, events)
    \/ \E q \in 1..Len(alertReqs), ok \in BOOLEAN :
          alertReqs[q].run /\ AlertsResponse(q, ok)
    \/ \E ok \in BOOLEAN : RunStatsResponse(ok)

FairSpecJob == SpecJob /\ WF_vars(RunProgress)

\* The alert reconciler: polls, clears and a growing alert collection.
NextFeed ==
    \/ TimerTick
    \/ \E n \in StoreSizes : BackendStoresAlerts(n)
    \/ \E q \in 1..Len(alertReqs) : BackendAnswerAlerts(q)
    \/ \E q \in 1..Len(alertReqs), ok \in BOOLEAN : AlertsResponse(q, ok)
    \/ \E ok \in BOOLEAN, last \in BOOLEAN : StatsResponse(ok, last)
    \/ ClearAlertsClick
    \/ \E ok \in BOOLEAN, processed \in BOOLEAN : ClearAlertsResponse(ok, processed)

InitFeed == Init /\ page = "app"

SpecFeed == InitFeed /\ [][NextFeed]_vars

\* The result filter applied to every result set and filter setting.
FilterLabels == {"Attack", "Normal"}
FilterIps == {<<"1", "A">>, <<"a">>, NullIp}
FilterRecords == {Rec(l, ip) : l \in FilterLabels, ip \in FilterIps}
FilterResultSets ==
    UNION {[1..n -> FilterRecords] : n \in 0..MaxResults}
FilterChars == {"1", "A", Blank}
FilterTexts == UNION {[1..n -> FilterChars] : n \in 0..MaxFilterLen}

InitFilter ==
    /\ page = "console"
    /\ backendAlerts = DefaultAlerts
    /\ store = 0
    /\ allDetectionResults \in FilterResultSets
    /\ filterThreat \in ThreatFilters
    /\ filterIP \in FilterTexts
    /\ Loaded

NextFilter ==
    \/ \E v \in ThreatFilters : FilterThreatChange(v)
    \/ \E text \in FilterTexts : FilterIPInput(text)

SpecFilter == InitFilter /\ [][NextFilter]_vars

\* A detection run on the pages that show its results, with the user
\* changing the filters before, during and after the run.
HundredEvents ==
    [j \in 1..ScenarioEvents |->
        Rec(IF j % 3 = 0 THEN "Attack" ELSE "Normal",
            IF j % 2 = 0 THEN <<"1", "A">> ELSE NullIp)]
RunResultSets == ResultSets \cup {HundredEvents, NoEvents}
RunFilterTexts == {<<>>, <<Blank>>, <<"A">>}

InitRunView == Init /\ page \in CancellablePages

NextRunView ==
    \/ BtnDetectStart
    \/ \E i \in 1..Len(runs), ok \in BOOLEAN, count \in LogCounts, t \in PromptInputs :
          LogsCountResponse(i, ok, count, t)
    \/ \E i \in 1..Len(runs), n \in JobStoreSizes : BackendDetectFinish(i, n)
    \/ \E i \in 1..Len(runs), ok \in BOOLEAN, events \in RunResultSets :
          DetectResponse(i, ok, events)
    \/ \E q \in 1..Len(alertReqs) : BackendAnswerAlerts(q)
    \/ \E q \in 1..Len(alertReqs), ok \in BOOLEAN : AlertsResponse(q, ok)
    \/ \E ok \in BOOLEAN, last \in BOOLEAN : StatsResponse(ok, last)
    \/ \E ok \in BOOLEAN : RunStatsResponse(ok)
    \/ \E v \in ThreatFilters : FilterThreatChange(v)
    \/ \E text \in RunFilterTexts : FilterIPInput(text)

SpecRunView == InitRunView /\ [][NextRunView]_vars

\* Every handler of the console page: the job controller, the polling timer,
\* both clear buttons and the label filter. The backend holds two alerts
\* and at most LogCountThreshold logs (no limit prompt); polls and the
\* refreshes of a run are answered.
ConsoleThreats == {"all", "Attack"}
ConsoleFilterTexts == {<<>>, <<"A">>}
ConsoleAlerts == SubSeq(DefaultAlerts, 1, 2)

InitConsole ==
    /\ page = "console"
    /\ backendAlerts = ConsoleAlerts
    /\ store = 0
    /\ allDetectionResults = <<>>
    /\ filterThreat = "all"
    /\ filterIP = <<>>
    /\ Loaded

NextConsole ==
    \/ BtnDetectStart
    \/ BtnDetectCancel
    \/ \E ok \in BOOLEAN, processed \in BOOLEAN : CancelResponse(ok, processed)
    \/ \E i \in 1..Len(runs), ok \in BOOLEAN :
          LogsCountResponse(i, ok, LogCountThreshold, "")
    \/ \E i \in 1..Len(runs), n \in JobStoreSizes : BackendDetectFinish(i, n)
    \/ \E i \in 1..Len(runs), ok \in BOOLEAN, events \in ResultSets :
          DetectResponse(i, ok, events)
    \/ TimerTick
    \/ \E q \in 1..Len(alertReqs) : BackendAnswerAlerts(q)
    \/ \E q \in 1..Len(alertReqs) : AlertsResponse(q, TRUE)
    \/ RunStatsResponse(TRUE)
    \/ ClearAlertsClick
    \/ \E ok \in BOOLEAN, processed \in BOOLEAN : ClearAlertsResponse(ok, processed)
    \/ \E confirmed \in BOOLEAN : ClearLogsClick(confirmed)
    \/ \E ok \in BOOLEAN, processed \in BOOLEAN : ClearLogsResponse(ok, processed)
    \/ \E v \in ConsoleThreats : FilterThreatChange(v)

SpecConsole == InitConsole /\ [][NextConsole]_vars

\* The handlers of the console page that write the result set or the view:
\* runs, both filter inputs and clear logs.
NextView ==
    \/ BtnDetectStart
    \/ \E i \in 1..Len(runs), ok \in BOOLEAN :
          LogsCountResponse(i, ok, LogCountThreshold, "")
    \/ \E i \in 1..Len(runs), n \in JobStoreSizes : BackendDetectFinish(i, n)
    \/ \E i \in 1..Len(runs), ok \in BOOLEAN, events \in ResultSets :
          DetectResponse(i, ok, events)
    \/ \E q \in 1..Len(alertReqs) : BackendAnswerAlerts(q)
    \/ \E q \in 1..Len(alertReqs) : AlertsResponse(q, TRUE)
    \/ RunStatsResponse(TRUE)
    \/ \E confirmed \in BOOLEAN : ClearLogsClick(confirmed)
    \/ \E ok \in BOOLEAN, processed \in BOOLEAN : ClearLogsResponse(ok, processed)
    \/ \E v \in ConsoleThreats : FilterThreatChange(v)
    \/ \E text \in ConsoleFilterTexts : FilterIPInput(text)

SpecView == InitConsole /\ [][NextView]_vars

\* The series aggregator on the dashboard: the page is loaded while the
\* backend holds any number of alerts of any of the collections below, polls
\* them, and the user clears them.
ScenarioAlerts ==
    [i \in 1..10 |->
        Alert(i, <<"Normal", "Attack", "Normal", "Suspicious", "Attack",
                   "Normal", "Normal", "Suspicious", "Attack", "Normal">>[i],
              720 - 7 * i)]
ChartAlerts == {ScenarioAlerts, LongAlerts(1, 3), LongAlerts(2, 0)}

InitCharts ==
    /\ page = "app"
    /\ backendAlerts \in ChartAlerts
    /\ allDetectionResults = <<>>
    /\ filterThreat = "all"
    /\ filterIP = <<>>
    /\ Loaded
    /\ store \in 0..Len(backendAlerts)

NextCharts ==
    \/ TimerTick
    \/ \E q \in 1..Len(alertReqs) : BackendAnswerAlerts(q)
    \/ \E q \in 1..Len(alertReqs), ok \in BOOLEAN : AlertsResponse(q, ok)
    \/ ClearAlertsClick
    \/ \E ok \in BOOLEAN, processed \in BOOLEAN : ClearAlertsResponse(ok, processed)

SpecCharts == InitCharts /\ [][NextCharts]_vars

\* Runs and cancellation clicks on the pages that can cancel, with the
\* cancellation requests of each run counted.
InitCancel == Init /\ page \in CancellablePages

NextCancel ==
    \/ BtnDetectStartObserved
    \/ BtnDetectCancelObserved
    \/ \E ok \in BOOLEAN, processed \in BOOLEAN : CancelResponse(ok, processed)
    \/ \E i \in 1..Len(runs), ok \in BOOLEAN :
          LogsCountResponse(i, ok, LogCountThreshold, "")
    \/ \E i \in 1..Len(runs), n \in JobStoreSizes : BackendDetectFinish(i, n)
    \/ \E i \in 1..Len(runs), ok \in BOOLEAN, events \in ResultSets :
          DetectResponse(i, ok, events)
    \/ \E q \in 1..Len(alertReqs) : BackendAnswerAlerts(q)
    \/ \E q \in 1..Len(alertReqs), ok \in BOOLEAN : AlertsResponse(q, ok)
    \/ \E ok \in BOOLEAN : RunStatsResponse(ok)

SpecCancel == InitCancel /\ [][NextCancel]_vars

\* Polls and alert clears on the dashboard with the order of requests and
\* answers observed: the backend holds up to two alerts, and its answers
\* reach the page in any order.
RaceAlerts == SubSeq(ScenarioAlerts, 1, 2)
RaceStoreSizes == {1, 2}

InitRace ==
    /\ page = "app"
    /\ backendAlerts = RaceAlerts
    /\ store = 0
    /\ allDetectionResults = <<>>
    /\ filterThreat = "all"
    /\ filterIP = <<>>
    /\ Loaded

NextRace ==
    \/ TimerTick
    \/ \E n \in RaceStoreSizes : BackendStoresAlerts(n)
    \/ \E q \in 1..Len(alertReqs) : BackendAnswerAlerts(q)
    \/ \E q \in 1..Len(alertReqs), ok \in BOOLEAN : AlertsResponseObserved(q, ok)
    \/ ClearAlertsClick
    \/ \E ok \in BOOLEAN, processed \in BOOLEAN :
          ClearAlertsResponseObserved(ok, processed)

SpecRace == InitRace /\ [][NextRace]_vars

\* ------------------------------------------------------------------- claims
\* C1: under every interleaving of clicks, timer ticks and network
\* completions at most one POST /detect request is outstanding.
C1_AtMostOneDetectOutstanding == DetectOutstanding <= 1

\* C1 witness: the button was clicked again while the POST /detect of a run
\* was outstanding (the click became a cancellation request).
C1_Witness == DetectOutstanding = 1 /\ cancelReqs = 1

\* C2: given that the requests of a run complete, JobState = Running or
\* CancelRequested always leads to JobState = Idle.
C2_RunLeadsToIdle == (JobState # "Idle") ~> (JobState = "Idle")

\* C2 witness: a run that was cancelled has reported its partial result and
\* JobState is Idle again.
C2_Witness ==
    /\ page = "console"
    /\ dialog = "Stopped"
    /\ runs = <<>>
    /\ JobState = "Idle"

\* C3 as claimed: the rendered feed holds at most 50 alert entries.
C3_FeedAtMost50 == Len(AlertEntries(alertsList)) <= 50

\* C4: for every log_id the rendered feed contains at most one entry.
C4_OneEntryPerLogId ==
    LET entries == AlertEntries(alertsList)
    IN  Cardinality({entries[i] : i \in 1..Len(entries)}) = Len(entries)

\* C4 witness: two polls are outstanding at once, both answered with alerts,
\* while alerts are already in the feed.
C4_Witness ==
    /\ Len(alertReqs) >= 2
    /\ alertReqs[1].snap > 0
    /\ alertReqs[2].snap > 0
    /\ Len(AlertEntries(alertsList)) > 0

\* C5: reconciling the list that was reconciled last, with no clear in
\* between, admits no alert and leaves knownAlertIds and the feed as they were.
C5_SecondReconcileAdmitsNone ==
    [][call' = "again" =>
          /\ admitted' = <<>>
          /\ UNCHANGED <<knownAlertIds, alertsList>>]_vars

\* C5 witness: a list longer than the feed was reconciled a second time.
C5_Witness ==
    /\ call = "again"
    /\ Len(lastReconciled) > FeedLimit
    /\ alertCount = Len(lastReconciled)

\* The filtered view for a given normalisation of the IP filter text: the
\* records of allDetectionResults that satisfy both predicates, in order.
ViewFor(ipSubstring) ==
    SelectSeq(allDetectionResults,
              LAMBDA r : /\ filterThreat = "all" \/ r.threat_label = filterThreat
                         /\ \/ ipSubstring = <<>>
                            \/ Includes(ToLowerCase(IpOrEmpty(r)), ipSubstring))

\* C6 as claimed: the view is the subsequence of records whose label passes
\* and whose lower-cased IP contains the lower-cased ipSubstring (or the
\* ipSubstring is empty); matchCount is its length.
C6_ViewForLowerCasedFilter ==
    resultsCount # -1 =>
        /\ detectBody.rows = ViewFor(ToLowerCase(filterIP))
        /\ resultsCount = Len(detectBody.rows)

\* C6 amended: as claimed, with the ipSubstring trimmed of surrounding white
\* space before it is lower-cased.
C6_ViewForTrimmedFilter ==
    resultsCount # -1 =>
        /\ detectBody.rows = ViewFor(ToLowerCase(Trim(filterIP)))
        /\ resultsCount = Len(detectBody.rows)

\* C6 witness: a label filter and an IP filter with white space around it
\* are both active and keep some records but not all.
C6_Witness ==
    /\ filterThreat # "all"
    /\ Trim(filterIP) # <<>>
    /\ Trim(filterIP) # filterIP
    /\ resultsCount > 0
    /\ resultsCount < Len(allDetectionResults)

\* A click on the run-detection button that the browser dispatches.
BtnDetectClick == BtnDetectStart \/ BtnDetectCancel

\* C7 as claimed: a start while JobState = Running performs no network call
\* and leaves JobState unchanged.
C7_ClickWhileRunningSendsNothing ==
    [][(JobState = "Running" /\ BtnDetectClick) =>
          (issued' = {} /\ JobState' = JobState)]_vars

\* C7 amended: a click while JobState is not Idle starts no run: it sends
\* neither GET /logs/count nor POST /detect (only POST /detect/cancel) and
\* leaves JobState and the run in flight unchanged.
C7_ClickWhileRunningStartsNoRun ==
    [][(JobState # "Idle" /\ BtnDetectClick) =>
          /\ issued' = {"/detect/cancel"}
          /\ runs' = runs
          /\ JobState' = JobState]_vars

\* C7 witness: the button was clicked while JobState = Running.
C7_Witness ==
    /\ JobState = "Running"
    /\ issued = {"/detect/cancel"}
    /\ Len(runs) = 1

\* C8 as claimed: cancel while Running issues POST /detect/cancel and moves
\* JobState to CancelRequested; cancel while Idle issues no cancellation.
C8_CancelMovesToCancelRequested ==
    [][/\ (JobState = "Running" /\ BtnDetectClick) =>
             (issued' = {"/detect/cancel"} /\ JobState' = "CancelRequested")
       /\ (JobState = "Idle" /\ BtnDetectClick) =>
             "/detect/cancel" \notin issued']_vars

\* C8 amended: cancel while Running issues POST /detect/cancel and leaves
\* JobState as it is; JobState becomes CancelRequested when that request
\* succeeds while the run is still in progress, and is unchanged when it
\* fails; a click while Idle issues no cancellation request.
C8_CancelRequestedOnAcknowledgement ==
    [][/\ (JobState = "Running" /\ BtnDetectClick) =>
             (issued' = {"/detect/cancel"} /\ JobState' = JobState)
       /\ (JobState # "Idle" /\ CancelResponse(TRUE, TRUE)) =>
             JobState' = "CancelRequested"
       /\ (\E processed \in BOOLEAN : CancelResponse(FALSE, processed)) =>
             JobState' = JobState
       /\ (JobState = "Idle" /\ BtnDetectClick) =>
             ("/detect/cancel" \notin issued' /\ cancelReqs' = cancelReqs)]_vars

\* C8 witness: a cancellation was acknowledged while the detection request
\* of the run is outstanding.
C8_Witness ==
    /\ JobState = "CancelRequested"
    /\ DetectOutstanding = 1
    /\ cancelReqs = 0

RunRequestFails(i) ==
    \/ \E count \in LogCounts, t \in PromptInputs : LogsCountResponse(i, FALSE, count, t)
    \/ \E events \in ResultSets : DetectResponse(i, FALSE, events)

C10_ClearAtomicThenReadmits ==
    [][/\ (knownAlertIds' = {}) <=> (AlertEntries(alertsList') = <<>>)
       /\ (\E processed \in BOOLEAN : ClearAlertsResponse(TRUE, processed)) =>
             (knownAlertIds' = {} /\ AlertEntries(alertsList') = <<>>)
       /\ call' = "first" =>
             /\ knownAlertIds = {}
             /\ admitted' = lastReconciled'
             /\ \A a \in 1..Len(admitted') : admitted'[a] \in knownAlertIds']_vars

\* C10 witness: after a clear of a non-empty knownAlertIds, a reconciliation
\* has admitted its whole input again.
C10_Witness ==
    /\ call = "first"
    /\ admitted # <<>>
    /\ admitted = lastReconciled

\* C11: between two clears, eviction never takes a log_id out of
\* knownAlertIds: no step other than a successful clear shrinks the set, an
\* entry that leaves the feed stays in the set, and a log_id that is in the
\* set but no longer in the feed is never put back into the feed.
C11_EvictedStaysSeen ==
    [][~(\E processed \in BOOLEAN : ClearAlertsResponse(TRUE, processed)) =>
          /\ knownAlertIds \subseteq knownAlertIds'
          /\ FeedIds(alertsList) \ FeedIds(alertsList') \subseteq knownAlertIds'
          /\ (knownAlertIds \ FeedIds(alertsList)) \cap FeedIds(alertsList') = {}]_vars

\* C11 witness: a poll returned again an alert that had been admitted and
\* evicted before; the reconciliation admitted nothing and the alert is
\* still out of the feed.
C11_Witness ==
    /\ call = "again"
    /\ admitted = <<>>
    /\ \E k \in 1..Len(lastReconciled) :
          /\ lastReconciled[k] \in knownAlertIds
          /\ lastReconciled[k] \notin FeedIds(alertsList)

\* C12: a reconciliation admits the alerts of its input that are not yet in
\* knownAlertIds, in input order, and prepends each: afterwards the head of
\* the feed is the alert admitted last, and the alert entries of the feed
\* are the admitted alerts in reverse admission order followed by the
\* entries that were there before (cut at the tail by eviction).
C12_NewestFirst ==
    [][admitted' # <<>> =>
          LET n == Len(admitted')
              old == AlertEntries(alertsList)
              new == AlertEntries(alertsList')
              reversed == [k \in 1..n |-> admitted'[n + 1 - k]]
          IN  /\ admitted' = SelectSeq(lastReconciled',
                                       LAMBDA a : a \notin knownAlertIds)
              /\ alertsList'[1] = admitted'[n]
              /\ Len(new) <= n + Len(old)
              /\ new = SubSeq(reversed \o old, 1, Len(new))]_vars

\* C12 witness: a reconciliation admitted several alerts on top of a feed
\* that already had entries.
C12_Witness ==
    /\ Len(admitted) >= 2
    /\ Len(AlertEntries(alertsList)) > Len(admitted)
    /\ alertsList[1] = admitted[Len(admitted)]

\* C13: knownAlertIds is empty when the page has loaded and after a
\* successful clear, and every other step adds to it exactly the log_ids of
\* the alerts the step admitted to the feed: the set only grows between two
\* clears and holds a log_id if and only if an alert with it was admitted
\* since the last clear. Every log_id shown in the feed is in the set.
C13_SeenIffAdmittedSinceClear ==
    /\ knownAlertIds = {}
    /\ FeedIds(alertsList) = {}
    /\ [][/\ IF \E processed \in BOOLEAN : ClearAlertsResponse(TRUE, processed)
              THEN knownAlertIds' = {}
              ELSE knownAlertIds' =
                      knownAlertIds \cup {admitted'[k] : k \in 1..Len(admitted')}
           /\ FeedIds(alertsList') \subseteq knownAlertIds']_vars

\* C13 witness: after a clear, alerts were admitted again and some of them
\* were evicted: the set holds more log_ids than the feed shows.
C13_Witness ==
    /\ call = "first"
    /\ admitted # <<>>
    /\ FeedIds(alertsList) # {}
    /\ FeedIds(alertsList) # knownAlertIds
    /\ FeedIds(alertsList) \subseteq knownAlertIds

\* C14: when a run was cancelled while its POST /detect was outstanding and
\* the request is answered with cancelled = true and the events analysed
\* so far, the handler makes these events the result set of the filter,
\* shows them under the current filter and reports the run as stopped;
\* given that the requests of the run complete, JobState is Idle afterwards.
C14_PartialResultAccepted ==
    /\ [][\A i \in 1..Len(runs), events \in ResultSets :
             (runs[i].cancelled /\ DetectResponse(i, TRUE, events)) =>
                /\ allDetectionResults' = events
                /\ resultsCount' = Len(Filtered(events, filterThreat, filterIP))
                /\ dialog' = "Stopped"]_vars
    /\ (dialog = "Stopped") ~> (JobState = "Idle")

\* C14 witness: on the detection page a cancelled run has delivered a
\* non-empty partial result, which is shown, and the page is idle again.
C14_Witness ==
    /\ page = "detection"
    /\ dialog = "Stopped"
    /\ allDetectionResults # <<>>
    /\ resultsCount = Len(allDetectionResults)
    /\ JobState = "Idle"

\* C15: when POST /detect is answered with cancelled = false and k events,
\* the events become the result set, whose view under threatLabel = "all"
\* and an empty ipSubstring is these k events in their order; and whenever
\* a run has completed this way (JobState is Idle again) and the filters
\* are "all" and empty, the page shows exactly the result set in its
\* order, with matchCount = k.
C15_FullResultShownUnderAll ==
    /\ [][\A i \in 1..Len(runs), events \in RunResultSets \ {NoEvents} :
             (~runs[i].cancelled /\ DetectResponse(i, TRUE, events)) =>
                /\ allDetectionResults' = events
                /\ Filtered(allDetectionResults', "all", <<>>) = events
                /\ dialog' = "Analyzed"]_vars
    /\ [](dialog = "Analyzed" /\ runs = <<>> =>
             /\ JobState = "Idle"
             /\ (filterThreat = "all" /\ filterIP = <<>>) =>
                   /\ detectBody.rows = allDetectionResults
                   /\ resultsCount = Len(allDetectionResults))

\* C15 witness: a run that returned the scenario's 100 events has completed
\* and, with the filters at "all" and empty, all 100 are counted as shown.
C15_Witness ==
    /\ dialog = "Analyzed"
    /\ runs = <<>>
    /\ JobState = "Idle"
    /\ allDetectionResults = HundredEvents
    /\ filterThreat = "all"
    /\ filterIP = <<>>
    /\ resultsCount = ScenarioEvents
    /\ online # "unknown"

\* C16: once the filter has been applied, an empty view comes with exactly
\* one message: "No logs to analyze" when the result set is empty and no
\* filter is active, "No results match your filters" when the result set is
\* not empty but no record passes; a view that is not empty comes with no
\* message, and the count shown is the size of the view.
C16_EmptyViewHasReason ==
    resultsCount # -1 =>
       LET view == ViewFor(IpFilterOf(filterIP))
           noFilter == filterThreat = "all" /\ IpFilterOf(filterIP) = <<>>
       IN  /\ resultsCount = Len(view)
           /\ view = <<>> => detectBody.msg \in {NoLogsMsg, NoMatchMsg}
           /\ (view = <<>> /\ allDetectionResults = <<>> /\ noFilter) =>
                 detectBody.msg = NoLogsMsg
           /\ (view = <<>> /\ allDetectionResults # <<>>) =>
                 detectBody.msg = NoMatchMsg
           /\ view # <<>> => detectBody.msg = "" /\ detectBody.rows = view

\* C16 witness: the result set is not empty, the filters exclude every
\* record and the page says so.
C16_Witness ==
    /\ allDetectionResults # <<>>
    /\ filterThreat # "all"
    /\ resultsCount = 0
    /\ detectBody = [msg |-> NoMatchMsg, rows |-> <<>>]

\* C17 as claimed: once a poll that returned no alerts has been aggregated,
\* the timeline (labels, attack counts, suspicious counts) is empty,
\* whatever was aggregated before.
C17_EmptyPollEmptiesTimeline ==
    [][\A q \in 1..Len(alertReqs) :
          (alertReqs[q].snap = 0 /\ AlertsResponse(q, TRUE)) =>
             timelineChart' = EmptyTimeline]_vars

\* The least number of parts of size d that hold n: ceil(n / d).
LeastParts(n, d) == CHOOSE k \in 0..n : k * d >= n /\ (k - 1) * d < n

\* C18: when a poll with n >= 1 alerts is aggregated, bucketCount is
\* min(10, ceil(n/5)), bucketSize is ceil(n/bucketCount), and the timeline
\* gets ceil(n/bucketSize) buckets, at least 1 and at most bucketCount,
\* hence at most 10; for n = 7 bucketCount is 2 and the two buckets hold
\* 4 and 3 alerts.
C18_BucketCountLaw ==
    [][call' # "none" =>
          LET n == alertCount'
              perFive == LeastParts(n, 5)
              count == IF perFive < 10 THEN perFive ELSE 10
              size == LeastParts(n, count)
              emitted == Len(timelineChart'.labels)
              buckets == Buckets(AlertRecords(n))
          IN  /\ n >= 1
              /\ BucketCount(n) = count
              /\ BucketSize(n) = size
              /\ emitted = LeastParts(n, size)
              /\ Len(timelineChart'.attacks) = emitted
              /\ Len(timelineChart'.suspicious) = emitted
              /\ 1 <= emitted /\ emitted <= count /\ count <= 10
              /\ n = 7 => /\ count = 2
                          /\ emitted = 2
                          /\ <<Len(buckets[1]), Len(buckets[2])>> = <<4, 3>>]_vars

\* C18 witness: 51 alerts were aggregated: bucketCount is capped at 10,
\* bucketSize is 6 and the tenth chunk is empty, so 9 buckets are shown.
C18_Witness ==
    /\ call # "none"
    /\ alertCount = 51
    /\ BucketCount(alertCount) = 10
    /\ Len(timelineChart.labels) = 9

\* C19: when a poll with n >= 1 alerts is aggregated, the buckets are
\* contiguous chunks of the alerts in ascending timestamp order: none is
\* empty, all but the last hold bucketSize alerts, read one after the other
\* they are the input alerts, each exactly once, in ascending timestamp
\* order, and the attack and suspicious counts shown for a bucket are the
\* numbers of Attack and Suspicious alerts in its chunk.
C19_BucketsAreSortedChunks ==
    [][call' # "none" =>
          \A alerts \in {AlertRecords(alertCount')} :
          \A buckets \in {Buckets(alerts)} :
          LET n == Len(alerts)
              e == Len(buckets)
              size == BucketSize(n)
              at(p) == buckets[((p - 1) \div size) + 1][((p - 1) % size) + 1]
              count(b, label) ==
                  Cardinality({j \in 1..Len(b) : b[j].threat_label = label})
          IN  /\ e >= 1
              /\ \A k \in 1..(e - 1) : Len(buckets[k]) = size
              /\ Len(buckets[e]) = n - size * (e - 1)
              /\ Len(buckets[e]) >= 1
              /\ \A p \in 1..(n - 1) : at(p).timestamp <= at(p + 1).timestamp
              /\ {at(p).log_id : p \in 1..n} = {alerts[p].log_id : p \in 1..n}
              /\ Cardinality({alerts[p].log_id : p \in 1..n}) = n
              /\ \A p \in 1..n : \E q \in 1..n : alerts[q] = at(p)
              /\ timelineChart'.attacks =
                    [k \in 1..e |-> count(buckets[k], "Attack")]
              /\ timelineChart'.suspicious =
                    [k \in 1..e |-> count(buckets[k], "Suspicious")]]_vars

\* C19 witness: seven alerts that arrived in descending timestamp order were
\* aggregated into a bucket of the four earliest (1 Attack, 1 Suspicious)
\* and a bucket of the three latest (1 Attack).
C19_Witness ==
    /\ call # "none"
    /\ backendAlerts = ScenarioAlerts
    /\ alertCount = 7
    /\ timelineChart.attacks = <<1, 1>>
    /\ timelineChart.suspicious = <<1, 0>>

\* C20: when the answer L of a poll is aggregated, the distribution becomes
\* (Attack alerts in L, Suspicious alerts in L, Normal alerts in L), counted
\* over all of L, whatever knownAlertIds, the feed and the charts held
\* before; for 3 Attack, 2 Suspicious and 5 Normal alerts it is (3, 2, 5).
C20_DistributionIsTally ==
    [][\A q \in 1..Len(alertReqs) :
          AlertsResponse(q, TRUE) =>
             \A L \in {AlertRecords(alertReqs[q].snap)} :
             LET count(label) ==
                     Cardinality({j \in 1..Len(L) : L[j].threat_label = label})
             IN  /\ threatChart' =
                       <<count("Attack"), count("Suspicious"), count("Normal")>>
                 /\ (count("Attack") = 3 /\ count("Suspicious") = 2
                        /\ count("Normal") = 5) => threatChart' = <<3, 2, 5>>]_vars

\* C20 witness: the scenario's ten alerts were polled a second time, all of
\* them already seen, and the distribution is (3, 2, 5).
C20_Witness ==
    /\ call = "again"
    /\ backendAlerts = ScenarioAlerts
    /\ alertCount = 10
    /\ Cardinality(knownAlertIds) = 10
    /\ threatChart = <<3, 2, 5>>

\* C21 as claimed: when the stored-log count exceeds the threshold and the
\* user enters a limit that is not a number, the error is reported and the
\* run does not send POST /detect with limit = null.
C21_NonNumericLimitReported ==
    [][\A i \in 1..Len(runs) :
          LogsCountResponse(i, TRUE, LogCountThreshold + 1, "abc") =>
             /\ dialog' # "none"
             /\ ~(\E j \in 1..Len(runs') :
                     runs'[j].pc = "detect" /\ runs'[j].limit = NullLimit)]_vars

\* C22 as claimed: a failed POST /detect/cancel is reported to the user,
\* i.e. the failure changes something the page shows (a dialog, the button
\* label, the connection indicator).
C22_CancelFailureReported ==
    [][(\E processed \in BOOLEAN : CancelResponse(FALSE, processed)) =>
          <<dialog', btnLabel', online'>> # <<dialog, btnLabel, online>>]_vars

\* C23: every answer to POST /detect replaces the result set of the filter
\* by the analyzed_events of that answer, or by the empty sequence when the
\* answer has none: nothing of the earlier result set is kept.
C23_ResultSetReplaced ==
    [][\A i \in 1..Len(runs), events \in RunResultSets :
          DetectResponse(i, TRUE, events) =>
             /\ events = NoEvents => allDetectionResults' = <<>>
             /\ events # NoEvents => allDetectionResults' = events
             /\ \A k \in 1..Len(allDetectionResults') :
                   events # NoEvents /\ allDetectionResults'[k] = events[k]]_vars

\* C23 witness: on the console a run was just answered with the 100 events
\* while the Attack filter is set: the result set is the whole answer, the
\* view only a part of it.
C23_Witness ==
    /\ page = "console"
    /\ Len(runs) = 1
    /\ runs[1].pc = "refresh"
    /\ allDetectionResults = HundredEvents
    /\ filterThreat = "Attack"
    /\ resultsCount < Len(allDetectionResults)


\* C24: after every completed handler that changed the filter or the result
\* set (a label change, an IP input, a completed run, a successful clear
\* logs), the rows shown and the match count are the filter applied to the
\* stored result set with the current filter values; before the first such
\* handler the view is the one the page loaded with.
C24_ViewIsFilterOfCurrent ==
    /\ resultsCount # -1 =>
          /\ detectBody.rows = ViewFor(IpFilterOf(filterIP))
          /\ resultsCount = Len(ViewFor(IpFilterOf(filterIP)))
    /\ resultsCount = -1 =>
          /\ allDetectionResults = <<>>
          /\ filterThreat = "all"
          /\ filterIP = <<>>
          /\ detectBody.rows = <<>>

\* C24 witness: a run stored two events, and with the label filter on "Attack"
\* and the IP filter on "A" the view shows the one matching row of the current
\* result set.
C24_Witness ==
    /\ Len(allDetectionResults) = 2
    /\ filterThreat = "Attack"
    /\ filterIP = <<"A">>
    /\ resultsCount = 1
    /\ Len(detectBody.rows) = 1
    /\ dialog = "Analyzed"

\* C25: a change of the label filter or of the IP filter issues no network
\* request and leaves the stored result set, the job state (flag, button,
\* runs), the seen ids, the alert feed and every outstanding request as they
\* were; it writes the filter value, the rows shown and the match count only.
C25_FilterChangeIsLocal ==
    [][((\E v \in ThreatFilters : FilterThreatChange(v))
          \/ (\E text \in RunFilterTexts : FilterIPInput(text))) =>
          /\ issued' = {}
          /\ allDetectionResults' = allDetectionResults
          /\ <<detectionInProgress', btnLabel', btnDisabled', runs'>>
                = <<detectionInProgress, btnLabel, btnDisabled, runs>>
          /\ knownAlertIds' = knownAlertIds
          /\ alertsList' = alertsList
          /\ alertCount' = alertCount
          /\ netVars' = netVars
          /\ <<dialog', online', store'>> = <<dialog, online, store>>
          /\ <<filterThreat', filterIP', resultsCount', detectBody'>>
                # <<filterThreat, filterIP, resultsCount, detectBody>>]_vars

\* C25 witness: while a second run waits for POST /detect, the label filter
\* has been set to "Attack" over the stored results of the first run and
\* nothing was requested by that step.
C25_Witness ==
    /\ detectionInProgress
    /\ Len(runs) = 1 /\ runs[1].pc = "detect"
    /\ allDetectionResults = HundredEvents
    /\ filterThreat = "Attack"
    /\ resultsCount < Len(allDetectionResults)
    /\ issued = {}


\* C26: while a run is in flight (JobState = Running) a click on the button is
\* dispatched and takes the cancel branch; the cancellation click sends
\* POST /detect/cancel at once, with the run still in flight and untouched;
\* and a timer tick during the run issues its polls, whose answers are
\* reconciled while the run is still in flight.
C26_CancelEnabledWhileRunning ==
    /\ [](JobState = "Running" => ClickDispatched /\ TakesCancelBranch)
    /\ [][BtnDetectCancel =>
             /\ issued' = {"/detect/cancel"}
             /\ runs' = runs /\ runs # <<>>]_vars
    /\ [][TimerTick /\ JobState = "Running" =>
             issued' = RefreshPaths /\ JobState' = "Running"]_vars


\* The steps of the console page by the component that takes them.
TimerPollStep ==
    \/ TimerTick
    \/ \E q \in 1..Len(alertReqs) : BackendAnswerAlerts(q)
    \/ \E q \in 1..Len(alertReqs) : ~alertReqs[q].run /\ AlertsResponse(q, TRUE)
FilterChangeStep == \E v \in ConsoleThreats : FilterThreatChange(v)
ClearAlertsStep ==
    \/ ClearAlertsClick
    \/ \E ok \in BOOLEAN, processed \in BOOLEAN : ClearAlertsResponse(ok, processed)
ClearLogsStep ==
    \/ \E confirmed \in BOOLEAN : ClearLogsClick(confirmed)
    \/ \E ok \in BOOLEAN, processed \in BOOLEAN : ClearLogsResponse(ok, processed)
RunStep ==
    \/ BtnDetectStart
    \/ BtnDetectCancel
    \/ \E ok \in BOOLEAN, processed \in BOOLEAN : CancelResponse(ok, processed)
    \/ \E i \in 1..Len(runs), ok \in BOOLEAN :
          LogsCountResponse(i, ok, LogCountThreshold, "")
    \/ \E i \in 1..Len(runs), n \in JobStoreSizes : BackendDetectFinish(i, n)
    \/ \E i \in 1..Len(runs), ok \in BOOLEAN, events \in ResultSets :
          DetectResponse(i, ok, events)
    \/ RunStatsResponse(TRUE)
    \/ \E q \in 1..Len(alertReqs) : alertReqs[q].run /\ AlertsResponse(q, TRUE)

\* C27: timer polls, filter changes and both clear actions leave the job
\* state (the flag, the button and the runs in flight) as it was; a step of a
\* run changes the seen ids or the feed only when it reconciles the alerts of
\* the poll the run awaits; timer polls and alert clears leave the stored
\* result set as it was.
C27_ChangedOnlyByOwner ==
    [][/\ <<detectionInProgress', btnLabel', btnDisabled', runs'>>
             # <<detectionInProgress, btnLabel, btnDisabled, runs>> =>
             ~(TimerPollStep \/ FilterChangeStep \/ ClearAlertsStep \/ ClearLogsStep)
       /\ JobState' # JobState =>
             <<detectionInProgress', btnLabel'>> # <<detectionInProgress, btnLabel>>
       /\ <<knownAlertIds', alertsList'>> # <<knownAlertIds, alertsList>> =>
             \/ ~RunStep
             \/ /\ \E q \in 1..Len(alertReqs) : alertReqs[q].run /\ AlertsResponse(q, TRUE)
                /\ call' # "none"
                /\ admitted' # <<>>
       /\ allDetectionResults' # allDetectionResults =>
             ~(TimerPollStep \/ ClearAlertsStep)]_vars

\* C27 witness: a run waits for POST /detect while the results of an earlier
\* run are stored and filtered, a polled alert is in the feed and a clear logs
\* request is outstanding.
C27_Witness ==
    /\ JobState = "Running"
    /\ Len(runs) = 1 /\ runs[1].pc = "detect"
    /\ allDetectionResults # <<>>
    /\ knownAlertIds # {}
    /\ clearLogsReqs = 1
    /\ filterThreat = "Attack"


\* C28: when a poll with n >= 1 alerts is aggregated, there is one label per
\* emitted bucket; the label of a bucket is the time of day (hour, minute) of
\* the timestamp of the bucket's first member; no member of the bucket has an
\* earlier timestamp; and the timestamps the labels are made from are
\* non-decreasing from the first bucket to the last.
C28_LabelIsEarliestOfBucket ==
    [][call' # "none" =>
          \A alerts \in {AlertRecords(alertCount')} :
          \A buckets \in {Buckets(alerts)} :
          LET e == Len(buckets)
              first(k) == buckets[k][1].timestamp
          IN  /\ Len(timelineChart'.labels) = e
              /\ \A k \in 1..e :
                    /\ timelineChart'.labels[k] = TimeLabel(first(k))
                    /\ \A m \in 1..Len(buckets[k]) :
                          first(k) <= buckets[k][m].timestamp
              /\ \A k \in 1..(e - 1) : first(k) <= first(k + 1)]_vars

\* C28 witness: seven alerts that arrived in descending timestamp order
\* (11:53 down to 11:11) were aggregated into two buckets labelled 11:11 AM
\* and 11:39 AM, the earliest timestamps of the four earliest and of the
\* three latest alerts.
C28_Witness ==
    /\ call # "none"
    /\ backendAlerts = ScenarioAlerts
    /\ alertCount = 7
    /\ timelineChart.labels =
          <<[hour |-> 11, minute |-> 11, pm |-> FALSE],
            [hour |-> 11, minute |-> 39, pm |-> FALSE]>>


\* C29 as claimed: when a reconciliation evicts alert entries, the entries
\* that remain are the most recently admitted ones (every remaining entry was
\* admitted after every evicted one), and exactly 50 entries remain.
C29_EvictsOldestDownTo50 ==
    [][admitted' # <<>> =>
          LET n == Len(admitted')
              old == AlertEntries(alertsList)
              new == AlertEntries(alertsList')
              newestFirst == [k \in 1..n |-> admitted'[n + 1 - k]] \o old
          IN  Len(new) < Len(newestFirst) =>
                 /\ new = SubSeq(newestFirst, 1, Len(new))
                 /\ Len(new) = 50]_vars


\* C30: the start click issues GET /logs/count and nothing else; POST /detect
\* is issued only by the step that receives the answer to that request; its
\* limit is null whenever the count is at most 10,000 or the prompt was
\* dismissed or left empty, and it is an integer only when the count exceeds
\* 10,000 and the user entered that integer.
C30_CountThenDetectWithLimit ==
    [][/\ BtnDetectStart => issued' = {"/logs/count"}
       /\ "/detect" \in issued' =>
             \E i \in 1..Len(runs), count \in LogCounts, t \in PromptInputs :
                runs[i].pc = "count" /\ LogsCountResponse(i, TRUE, count, t)
       /\ \A i \in 1..Len(runs), count \in LogCounts, t \in PromptInputs :
             LogsCountResponse(i, TRUE, count, t) =>
                /\ issued' = {"/detect"}
                /\ runs'[i].pc = "detect"
                /\ (count <= LogCountThreshold \/ t \in {"cancel", ""}) =>
                      runs'[i].limit = NullLimit
                /\ runs'[i].limit # NullLimit =>
                      /\ count > LogCountThreshold
                      /\ t = "500"
                      /\ runs'[i].limit = 500]_vars

\* C30 witness: the count exceeded 10,000, the user entered 500, and the
\* POST /detect just issued carries limit = 500.
C30_Witness ==
    /\ Len(runs) = 1
    /\ runs[1].pc = "detect"
    /\ runs[1].limit = 500
    /\ runs[1].sent = 1
    /\ issued = {"/detect"}


\* C31 as claimed: the answer to a poll that was outstanding when a clear
\* emptied the set admits no alert to the feed.
C31_OnlyPostClearPollsAdmit ==
    [][\A q \in 1..Len(alertReqs) :
          (q <= preClear /\ AlertsResponseObserved(q, TRUE)) => admitted' = <<>>]_vars


\* C32 as claimed: a click sends POST /detect/cancel only while a
\* POST /detect request is outstanding: none is sent while the run waits for
\* GET /logs/count or for its post-run refresh.
C32_CancelOnlyDuringDetect ==
    [][BtnDetectCancel =>
          /\ DetectOutstanding >= 1
          /\ \A i \in 1..Len(runs) : runs[i].pc \notin {"count", "refresh"}]_vars


\* C33 as claimed: between a start click and the next, at most one
\* POST /detect/cancel is sent.
C33_OneCancelPerRun == cancelsSent <= 1


\* C34 as claimed: when the answer to the last outstanding poll has been
\* processed and the poll that was issued last among those processed was
\* answered, the alert count and the distribution shown are those of its
\* answer, and so is the timeline when that answer holds an alert.
C34_LatestPollShown ==
    [][\A q \in 1..Len(alertReqs) :
          (AlertsResponseObserved(q, TRUE) /\ alertReqs' = <<>> /\ newest' >= 0) =>
             /\ alertCount' = newest'
             /\ threatChart' = Distribution(AlertRecords(newest'))
             /\ newest' > 0 => timelineChart' = Timeline(AlertRecords(newest'))]_vars


\* C35 as claimed: once the backend's collection is empty (clear logs with
\* clear_alerts), a poll that returns the empty collection leaves the feed
\* without alert entries and the set of seen ids empty.
C35_EmptyPollEmptiesFeed ==
    [][\A q \in 1..Len(alertReqs) :
          (alertReqs[q].snap = 0 /\ store = 0 /\ AlertsResponse(q, TRUE)) =>
             /\ AlertEntries(alertsList') = <<>>
             /\ knownAlertIds' = {}]_vars


\* The result set, the filtered view with its match count, the seen ids and
\* the feed.
RunFrame == <<allDetectionResults, detectBody, resultsCount, knownAlertIds, alertsList>>

\* C36: a run whose GET /logs/count or POST /detect fails has changed neither
\* the stored result set, the filtered view, the match count, the seen ids
\* nor the feed (not at the click that starts it, not when the log count
\* arrives, not in the catch block), and its catch block issues no request:
\* no refresh of alerts or stats follows.
C36_FailedRunChangesNothing ==
    [][/\ RunFrame' # RunFrame =>
             /\ ~BtnDetectStart
             /\ \A i \in 1..Len(runs) :
                   /\ ~RunRequestFails(i)
                   /\ \A count \in LogCounts, t \in PromptInputs :
                         ~LogsCountResponse(i, TRUE, count, t)
       /\ \A i \in 1..Len(runs) :
             RunRequestFails(i) =>
                 /\ issued' = {}
                 /\ alertReqs' = alertReqs
                 /\ statsPending' = statsPending]_vars

\* C36 witness: a run has failed while results were stored and displayed
\* and the feed held an alert.
C36_Witness ==
    /\ dialog = "Detection failed"
    /\ allDetectionResults # <<>>
    /\ resultsCount >= 1
    /\ knownAlertIds # {}
    /\ AlertEntries(alertsList) # <<>>

\* C37: when GET /alerts fails, refreshAlerts leaves the seen ids, the feed,
\* the displayed alert count and both chart series as they were and marks
\* the backend offline; when POST /alerts/clear fails, the seen ids and the
\* feed are as they were.
C37_FailedRequestChangesNothing ==
    [][/\ \A q \in 1..Len(alertReqs) :
             AlertsResponse(q, FALSE) =>
                 /\ UNCHANGED <<knownAlertIds, alertsList, alertCount>>
                 /\ UNCHANGED <<threatChart, timelineChart>>
                 /\ online' = "offline"
       /\ \A processed \in BOOLEAN :
             ClearAlertsResponse(FALSE, processed) =>
                 UNCHANGED <<knownAlertIds, alertsList>>]_vars

\* C37 witness: a poll has failed while the feed held an alert, the count
\* was positive and the charts had been drawn.
C37_Witness ==
    /\ online = "offline"
    /\ knownAlertIds # {}
    /\ AlertEntries(alertsList) # <<>>
    /\ alertCount >= 1
    /\ threatChart # <<0, 0, 0>>

\* The sum of a series of numbers.
RECURSIVE SumOf(_)
SumOf(series) ==
    IF series = <<>> THEN 0 ELSE Head(series) + SumOf(Tail(series))

\* C38: when a poll with n >= 1 alerts is aggregated, the attack counts of
\* the emitted buckets add up to the distribution's Attack count and the
\* suspicious counts of the emitted buckets add up to the distribution's
\* Suspicious count.
C38_TimelineSumsToDistribution ==
    [][call' # "none" =>
          /\ alertCount' >= 1
          /\ SumOf(timelineChart'.attacks) = threatChart'[1]
          /\ SumOf(timelineChart'.suspicious) = threatChart'[2]]_vars

\* C38 witness: 52 alerts were aggregated into nine buckets whose attack and
\* suspicious counts add up to the positive Attack and Suspicious counts of
\* the distribution.
C38_Witness ==
    /\ call # "none"
    /\ alertCount = 52
    /\ Len(timelineChart.attacks) = 9
    /\ threatChart[1] >= 1
    /\ threatChart[2] >= 1
    /\ SumOf(timelineChart.attacks) = threatChart[1]
    /\ SumOf(timelineChart.suspicious) = threatChart[2]
====
